---- MODULE Spec2Model ----
(***************************************************************************)
(* Model of the JSON tokenizer (src/json/lexer.rs), the recursive-descent  *)
(* parser (src/json/parser.rs) and the driver pipeline (src/main.rs).      *)
(*                                                                         *)
(* Bytes are one-character strings, byte strings are sequences of bytes.   *)
(* Positions are 0-based as in the source; At(s, i) reads s[i].            *)
(* An f64 is kept as the decimal that Display prints, [neg, int, frac]:    *)
(* int without leading zeros (<<>> is zero), frac without trailing zeros.  *)
(* Decimals of up to 15 significant digits are f64 values exactly as       *)
(* written; integers of 16 digits are rounded to the nearest f64.          *)
(***************************************************************************)
EXTENDS Integers, Sequences, FiniteSets, TLC

VARIABLES input, idx, output, lexRes, tokens, pos, parseRes, printed, pc, stack

vars == <<input, idx, output, lexRes, tokens, pos, parseRes, printed, pc, stack>>

(***************************************************************************)
(* Bounds of the input sets.                                               *)
(***************************************************************************)
MaxStrLen == 5
MaxNumLen == 4
MaxChunks == 3
MaxTokens == 4
MaxPairs == 3
MaxElems == 3
MaxMutPairs == 2

(***************************************************************************)
(* Bytes and slices.                                                       *)
(***************************************************************************)
Quote == "\""
Backslash == "\\"
\* The two bytes of the UTF-8 encoding of U+00E9; any other byte is ASCII.
Lead == "xC3"
Cont == "xA9"

Digits == {"0", "1", "2", "3", "4", "5", "6", "7", "8", "9"}

At(s, i) == s[i + 1]

\* s[from..to], 0-based and half-open
Slice(s, from, to) == SubSeq(s, from + 1, to)

\* std::str::from_utf8 succeeds on these bytes
RECURSIVE Utf8Valid(_)
Utf8Valid(s) ==
    IF s = <<>> THEN TRUE
    ELSE IF Head(s) = Lead
         THEN Len(s) >= 2 /\ s[2] = Cont /\ Utf8Valid(SubSeq(s, 3, Len(s)))
         ELSE Head(s) # Cont /\ Utf8Valid(Tail(s))

(***************************************************************************)
(* Tokens (lexer.rs enum Token).                                           *)
(***************************************************************************)
CurlyOpen == [t |-> "CurlyOpen"]
CurlyClose == [t |-> "CurlyClose"]
SquareOpen == [t |-> "SquareOpen"]
SquareClose == [t |-> "SquareClose"]
Comma == [t |-> "Comma"]
Colon == [t |-> "Colon"]
WhiteSpace == [t |-> "WhiteSpace"]
StringTok(s) == [t |-> "String", s |-> s]
NumberTok(n) == [t |-> "Number", n |-> n]
BoolTok(b) == [t |-> "Bool", b |-> b]
NullTok == [t |-> "Null"]

TokOk(tok) == [err |-> "none", tok |-> tok]
TokErr(e) == [err |-> e, tok |-> WhiteSpace]

(***************************************************************************)
(* f64: str::parse::<f64> and f64::to_string on a run of digits, '.', '-'. *)
(***************************************************************************)
RECURSIVE StripLeadingZeros(_)
StripLeadingZeros(d) ==
    IF d # <<>> /\ Head(d) = "0" THEN StripLeadingZeros(Tail(d)) ELSE d

RECURSIVE StripTrailingZeros(_)
StripTrailingZeros(d) ==
    IF d # <<>> /\ d[Len(d)] = "0"
    THEN StripTrailingZeros(SubSeq(d, 1, Len(d) - 1)) ELSE d

AllDigits(d) == \A i \in 1..Len(d) : d[i] \in Digits

DigitChars == <<"0", "1", "2", "3", "4", "5", "6", "7", "8", "9">>

DigitVal(d) ==
    CHOOSE n \in 0..9 : <<"0", "1", "2", "3", "4", "5", "6", "7", "8", "9">>[n + 1] = d

\* a < b for two digit sequences of the same length
RECURSIVE DigitsLess(_, _)
DigitsLess(a, b) ==
    IF a = <<>> THEN FALSE
    ELSE IF Head(a) # Head(b) THEN DigitVal(Head(a)) < DigitVal(Head(b))
    ELSE DigitsLess(Tail(a), Tail(b))

\* d + 1
RECURSIVE DigitsSucc(_)
DigitsSucc(d) ==
    IF d = <<>> THEN <<"1">>
    ELSE IF d[Len(d)] = "9" THEN DigitsSucc(SubSeq(d, 1, Len(d) - 1)) \o <<"0">>
    ELSE [d EXCEPT ![Len(d)] = DigitChars[DigitVal(@) + 2]]

\* 2^53: every integer up to it is an f64, and from it to 2^54 (which has
\* 17 digits) only the even ones are
TwoTo53 == <<"9", "0", "0", "7", "1", "9", "9", "2", "5", "4", "7", "4", "0", "9", "9", "2">>

\* The f64 nearest to an integer of up to 16 digits, ties to the even
\* mantissa: an odd integer above 2^53 goes to its neighbour that is a
\* multiple of 4.
NearestF64(int) ==
    LET n == Len(int)
    IN  IF n = Len(TwoTo53) /\ DigitsLess(TwoTo53, int) /\ DigitVal(int[n]) % 2 = 1
        THEN IF (10 * DigitVal(int[n - 1]) + DigitVal(int[n])) % 4 = 1
             THEN [int EXCEPT ![n] = DigitChars[DigitVal(@)]]
             ELSE DigitsSucc(int)
        ELSE int

\* The value of the decimal int.frac as an f64, written as the decimal that
\* Display prints.  Decimals of up to 15 significant digits and integers of
\* up to 16 digits are covered; the inputs hold no longer ones.
F64(neg, int, frac) ==
    LET i == StripLeadingZeros(int)
        f == StripTrailingZeros(frac)
    IN  [neg |-> neg, int |-> IF f = <<>> THEN NearestF64(i) ELSE i, frac |-> f]

\* [ok, num]: an optional '-', then digits with at most one '.', at least
\* one digit in all ("5.", ".5" and "-.5" parse; "", "-", "." do not).
ParseF64(run) ==
    LET neg == run # <<>> /\ Head(run) = "-"
        body == IF neg THEN Tail(run) ELSE run
        dots == {i \in 1..Len(body) : body[i] = "."}
        dot == IF dots = {} THEN Len(body) + 1 ELSE CHOOSE i \in dots : TRUE
        int == SubSeq(body, 1, dot - 1)
        frac == SubSeq(body, dot + 1, Len(body))
        ok == /\ Cardinality(dots) <= 1
              /\ AllDigits(int) /\ AllDigits(frac)
              /\ Len(int) + Len(frac) >= 1
    IN  IF ok THEN [ok |-> TRUE, num |-> F64(neg, int, frac)]
        ELSE [ok |-> FALSE, num |-> F64(FALSE, <<>>, <<>>)]

\* Display of an f64: no exponent, no trailing ".0", a leading "0" before
\* a bare fraction, "-0" for negative zero.
to_string(num) ==
    (IF num.neg THEN <<"-">> ELSE <<>>)
    \o (IF num.int = <<>> THEN <<"0">> ELSE num.int)
    \o (IF num.frac = <<>> THEN <<>> ELSE <<".">> \o num.frac)

(***************************************************************************)
(* Tokenizer (lexer.rs impl Tokenizer).                                    *)
(***************************************************************************)
\* StringWindowMatches without the test for an escaping backslash
StringWindowMatches_any_quote(window) ==
    \/ window = <<Quote>>
    \/ window[2] = Quote

\* the closure passed to position() in validate_string_token; the first
\* disjunct compares a two-byte window with a one-byte array
StringWindowMatches(window) ==
    \/ window = <<Quote>>
    \/ (window[1] # Backslash /\ window[2] = Quote)

\* validate_string_token taking the rest of the input as the string when
\* no closing quote is found
validate_string_token_to_end(in, i) ==
    LET rest == Slice(in, i + 1, Len(in))
        hits == {p \in 0..(Len(rest) - 2) : StringWindowMatches(Slice(rest, p, p + 2))}
    IN  IF hits = {} THEN TokOk(StringTok(rest))
        ELSE LET p == CHOOSE q \in hits : \A r \in hits : q <= r
                 end == p + 1
                 bytes == Slice(in, i + 1, i + 1 + end)
             IN  IF Utf8Valid(bytes) THEN TokOk(StringTok(bytes))
                 ELSE TokErr("InvalidString")

validate_string_token(in, i) ==
    LET rest == Slice(in, i + 1, Len(in))
        hits == {p \in 0..(Len(rest) - 2) : StringWindowMatches(Slice(rest, p, p + 2))}
    IN  IF hits = {} THEN TokErr("InvalidString")
        ELSE LET p == CHOOSE q \in hits : \A r \in hits : q <= r
                 end == p + 1
                 bytes == Slice(in, i + 1, i + 1 + end)
             IN  IF Utf8Valid(bytes) THEN TokOk(StringTok(bytes))
                 ELSE TokErr("InvalidString")

IsNumberByte(b) == b \in Digits \/ b = "." \/ b = "-"

\* validate_number_token ending the run at a '-' that is not its first byte
validate_number_token_sign_first(in, i) ==
    LET stops == {p \in 0..(Len(in) - i - 1) :
                    ~IsNumberByte(At(in, i + p)) \/ (p > 0 /\ At(in, i + p) = "-")}
        end == IF stops = {} THEN Len(in) - i
               ELSE CHOOSE q \in stops : \A r \in stops : q <= r
        num == ParseF64(Slice(in, i, i + end))
    IN  IF num.ok THEN TokOk(NumberTok(num.num)) ELSE TokErr("InvalidNumber")

validate_number_token(in, i) ==
    LET stops == {p \in 0..(Len(in) - i - 1) : ~IsNumberByte(At(in, i + p))}
        end == IF stops = {} THEN Len(in) - i
               ELSE CHOOSE q \in stops : \A r \in stops : q <= r
        num == ParseF64(Slice(in, i, i + end))
    IN  IF num.ok THEN TokOk(NumberTok(num.num)) ELSE TokErr("InvalidNumber")

\* The slice in[i..i+width] panics when it runs past the end of the input;
\* from_utf8 failing falls back to a text that matches no literal.
verify_literal(in, i, word, tok) ==
    IF i + Len(word) > Len(in) THEN TokErr("Panic")
    ELSE LET slice == Slice(in, i, i + Len(word))
         IN  IF Utf8Valid(slice) /\ slice = word THEN TokOk(tok)
             ELSE TokErr("InvalidLiteral")

verify_false_token(in, i) == verify_literal(in, i, <<"f", "a", "l", "s", "e">>, BoolTok(FALSE))

verify_true_token(in, i) == verify_literal(in, i, <<"t", "r", "u", "e">>, BoolTok(TRUE))

verify_null_token(in, i) == verify_literal(in, i, <<"n", "u", "l", "l">>, NullTok)

\* get_token without the arm of the colon
get_token_no_colon(in, i) ==
    LET b == At(in, i)
    IN  CASE b = "{" -> TokOk(CurlyOpen)
          [] b = "}" -> TokOk(CurlyClose)
          [] b = "," -> TokOk(Comma)
          [] b = "[" -> TokOk(SquareOpen)
          [] b = "]" -> TokOk(SquareClose)
          [] b = "n" -> verify_null_token(in, i)
          [] b = "f" -> verify_false_token(in, i)
          [] b = "t" -> verify_true_token(in, i)
          [] b = Quote -> validate_string_token(in, i)
          [] (b \in Digits \/ b = "-") -> validate_number_token(in, i)
          [] OTHER -> TokOk(WhiteSpace)

get_token(in, i) ==
    LET b == At(in, i)
    IN  CASE b = "{" -> TokOk(CurlyOpen)
          [] b = "}" -> TokOk(CurlyClose)
          [] b = "," -> TokOk(Comma)
          [] b = "[" -> TokOk(SquareOpen)
          [] b = "]" -> TokOk(SquareClose)
          [] b = ":" -> TokOk(Colon)
          [] b = "n" -> verify_null_token(in, i)
          [] b = "f" -> verify_false_token(in, i)
          [] b = "t" -> verify_true_token(in, i)
          [] b = Quote -> validate_string_token(in, i)
          [] (b \in Digits \/ b = "-") -> validate_number_token(in, i)
          [] OTHER -> TokOk(WhiteSpace)

\* Advance leaving out one byte of a Number
Advance_short_number(tok) ==
    CASE tok = BoolTok(TRUE) \/ tok = NullTok -> 4
      [] tok = BoolTok(FALSE) -> 5
      [] tok.t = "Number" -> Len(to_string(tok.n)) - 1
      [] tok.t = "String" -> Len(tok.s) + 2
      [] OTHER -> 1

\* the advance of idx after a pushed token (lexer.rs match on output.last())
Advance(tok) ==
    CASE tok = BoolTok(TRUE) \/ tok = NullTok -> 4
      [] tok = BoolTok(FALSE) -> 5
      [] tok.t = "Number" -> Len(to_string(tok.n))
      [] tok.t = "String" -> Len(tok.s) + 2
      [] OTHER -> 1

\* One iteration of the while loop of tokenize.  An Err from get_token
\* returns it and drops the accumulated output; a panic aborts the process.
TokenizeStep ==
    /\ pc = "tokenize"
    /\ idx < Len(input)
    /\ LET val == get_token(input, idx)
       IN  IF val.err = "Panic"
           THEN /\ pc' = "aborted"
                /\ lexRes' = "Panic"
                /\ output' = <<>>
                /\ idx' = idx
           ELSE IF val.err # "none"
           THEN /\ pc' = "lexed"
                /\ lexRes' = val.err
                /\ output' = <<>>
                /\ idx' = idx
           ELSE IF val.tok # WhiteSpace
           THEN /\ output' = Append(output, val.tok)
                /\ idx' = idx + Advance(val.tok)
                /\ UNCHANGED <<pc, lexRes>>
           ELSE /\ idx' = idx + 1
                /\ UNCHANGED <<pc, lexRes, output>>
    /\ UNCHANGED <<input, tokens, pos, parseRes, printed, stack>>

\* The loop condition fails: Ok(output.into_iter().peekable())
TokenizeReturn ==
    /\ pc = "tokenize"
    /\ idx >= Len(input)
    /\ pc' = "lexed"
    /\ lexRes' = "Ok"
    /\ tokens' = output
    /\ output' = <<>>
    /\ UNCHANGED <<input, idx, pos, parseRes, printed, stack>>

(***************************************************************************)
(* Values (parser.rs enum JsonValue).  An Object holds a function from     *)
(* keys to values, as the HashMap does.                                    *)
(***************************************************************************)
ObjectVal(m) == [t |-> "Object", m |-> m]
ArrayVal(a) == [t |-> "Array", a |-> a]
StringVal(s) == [t |-> "String", s |-> s]
NumberVal(n) == [t |-> "Number", n |-> n]
BoolVal(b) == [t |-> "Bool", b |-> b]
NullVal == [t |-> "Null"]

\* Result<JsonValue, String> together with the iterator position it leaves
POk(v, p) == [ok |-> TRUE, val |-> v, err |-> "", pos |-> p]
PErr(e, p) == [ok |-> FALSE, val |-> NullVal, err |-> e, pos |-> p]

\* Option<Token>::None
NoneTok == [t |-> "None"]

(***************************************************************************)
(* Parser (parser.rs impl Parser).  p is the number of tokens the iterator *)
(* has yielded so far.                                                     *)
(***************************************************************************)
\* next_token leaving the iterator where it is
next_token_no_advance(toks, p) ==
    IF p < Len(toks) THEN [tok |-> toks[p + 1], pos |-> p]
    ELSE [tok |-> NoneTok, pos |-> p]

next_token(toks, p) ==
    IF p < Len(toks) THEN [tok |-> toks[p + 1], pos |-> p + 1]
    ELSE [tok |-> NoneTok, pos |-> p]

peek_token(toks, p) == IF p < Len(toks) THEN toks[p + 1] ELSE NoneTok

\* insert that keeps the value a key already has
insert_keep_first(map, key, value) ==
    [k \in (DOMAIN map) \cup {key} |->
        IF k \in DOMAIN map THEN map[k] ELSE value]

\* HashMap::insert
insert(map, key, value) ==
    [k \in (DOMAIN map) \cup {key} |-> IF k = key THEN value ELSE map[k]]

RECURSIVE parse(_, _)
RECURSIVE parse_object_loop(_, _, _)
RECURSIVE parse_array_loop(_, _, _)

\* parse_object_loop reporting a missing colon with the message of the
\* separator check
parse_object_loop_wrong_message(toks, p, map) ==
    LET k == next_token(toks, p)
    IN  IF k.tok.t = "CurlyClose" THEN POk(ObjectVal(map), k.pos)
        ELSE IF k.tok.t = "String"
        THEN LET c == next_token(toks, k.pos)
             IN  IF c.tok.t = "Colon"
                 THEN LET value == parse(toks, c.pos)
                      IN  IF ~value.ok THEN value
                          ELSE LET map2 == insert(map, k.tok.s, value.val)
                                   s == next_token(toks, value.pos)
                               IN  IF s.tok.t = "Comma"
                                   THEN parse_object_loop(toks, s.pos, map2)
                                   ELSE IF s.tok.t = "CurlyClose"
                                   THEN POk(ObjectVal(map2), s.pos)
                                   ELSE PErr("Expected comma or closing curly brace", s.pos)
                 ELSE PErr("Expected comma or closing curly brace", c.pos)
        ELSE PErr("Expected string key or closing curly brace", k.pos)

\* the loop of parse_object
parse_object_loop(toks, p, map) ==
    LET k == next_token(toks, p)
    IN  IF k.tok.t = "CurlyClose" THEN POk(ObjectVal(map), k.pos)
        ELSE IF k.tok.t = "String"
        THEN LET c == next_token(toks, k.pos)
             IN  IF c.tok.t = "Colon"
                 THEN LET value == parse(toks, c.pos)
                      IN  IF ~value.ok THEN value
                          ELSE LET map2 == insert(map, k.tok.s, value.val)
                                   s == next_token(toks, value.pos)
                               IN  IF s.tok.t = "Comma"
                                   THEN parse_object_loop(toks, s.pos, map2)
                                   ELSE IF s.tok.t = "CurlyClose"
                                   THEN POk(ObjectVal(map2), s.pos)
                                   ELSE PErr("Expected comma or closing curly brace", s.pos)
                 ELSE PErr("Expected colon", c.pos)
        ELSE PErr("Expected string key or closing curly brace", k.pos)

parse_object(toks, p) == parse_object_loop(toks, p, <<>>)

\* parse_array_loop requiring a value after a consumed comma
parse_array_loop_strict(toks, p, vec) ==
    IF peek_token(toks, p).t = "SquareClose"
    THEN POk(ArrayVal(vec), next_token(toks, p).pos)
    ELSE LET value == parse(toks, p)
         IN  IF ~value.ok THEN value
             ELSE LET vec2 == Append(vec, value.val)
                      s == peek_token(toks, value.pos)
                  IN  IF s.t = "Comma"
                      THEN IF peek_token(toks, value.pos + 1).t = "SquareClose"
                           THEN PErr("Unexpected token", value.pos + 2)
                           ELSE parse_array_loop(toks, next_token(toks, value.pos).pos, vec2)
                      ELSE IF s.t = "SquareClose"
                      THEN parse_array_loop(toks, value.pos, vec2)
                      ELSE PErr("Expected comma or closing square bracket", value.pos)

\* parse_array_loop putting each value in front of the earlier ones
parse_array_loop_reversed(toks, p, vec) ==
    IF peek_token(toks, p).t = "SquareClose"
    THEN POk(ArrayVal(vec), next_token(toks, p).pos)
    ELSE LET value == parse(toks, p)
         IN  IF ~value.ok THEN value
             ELSE LET vec2 == <<value.val>> \o vec
                      s == peek_token(toks, value.pos)
                  IN  IF s.t = "Comma"
                      THEN parse_array_loop(toks, next_token(toks, value.pos).pos, vec2)
                      ELSE IF s.t = "SquareClose"
                      THEN parse_array_loop(toks, value.pos, vec2)
                      ELSE PErr("Expected comma or closing square bracket", value.pos)

\* the loop of parse_array
parse_array_loop(toks, p, vec) ==
    IF peek_token(toks, p).t = "SquareClose"
    THEN POk(ArrayVal(vec), next_token(toks, p).pos)
    ELSE LET value == parse(toks, p)
         IN  IF ~value.ok THEN value
             ELSE LET vec2 == Append(vec, value.val)
                      s == peek_token(toks, value.pos)
                  IN  IF s.t = "Comma"
                      THEN parse_array_loop(toks, next_token(toks, value.pos).pos, vec2)
                      ELSE IF s.t = "SquareClose"
                      THEN parse_array_loop(toks, value.pos, vec2)
                      ELSE PErr("Expected comma or closing square bracket", value.pos)

parse_array(toks, p) == parse_array_loop(toks, p, <<>>)

parse(toks, p) ==
    LET n == next_token(toks, p)
    IN  CASE n.tok.t = "CurlyOpen" -> parse_object(toks, n.pos)
          [] n.tok.t = "SquareOpen" -> parse_array(toks, n.pos)
          [] n.tok.t = "String" -> POk(StringVal(n.tok.s), n.pos)
          [] n.tok.t = "Number" -> POk(NumberVal(n.tok.n), n.pos)
          [] n.tok.t = "Bool" -> POk(BoolVal(n.tok.b), n.pos)
          [] n.tok.t = "Null" -> POk(NullVal, n.pos)
          [] OTHER -> PErr("Unexpected token", n.pos)

(***************************************************************************)
(* Driver (main.rs), after the file has been read.                         *)
(***************************************************************************)
NoResult == [ok |-> FALSE, val |-> NullVal, err |-> "none"]

\* tokens.unwrap() on an Err panics
MainUnwrapPanic ==
    /\ pc = "lexed"
    /\ lexRes # "Ok"
    /\ pc' = "aborted"
    /\ UNCHANGED <<input, idx, output, lexRes, tokens, pos, parseRes, printed, stack>>

\* Parser::new(tokens).parse()
MainParse ==
    /\ pc = "lexed"
    /\ lexRes = "Ok"
    /\ LET r == parse(tokens, pos)
       IN  /\ parseRes' = [ok |-> r.ok, val |-> r.val, err |-> r.err]
           /\ pos' = r.pos
    /\ pc' = "parsed"
    /\ UNCHANGED <<input, idx, output, lexRes, tokens, printed, stack>>

\* match parser { Ok(_) => println!(..), Err(err) => println!("{}", err) }
MainPrint ==
    /\ pc = "parsed"
    /\ printed' = IF parseRes.ok THEN "This is valid JSON. Great!" ELSE parseRes.err
    /\ pc' = "done"
    /\ UNCHANGED <<input, idx, output, lexRes, tokens, pos, parseRes, stack>>

(***************************************************************************)
(* The parser step by step.  stack holds one frame for each parse_object   *)
(* and parse_array call in progress: the map or vector built so far, the   *)
(* key read last, and the position at which the current iteration of its   *)
(* loop began.  pc is "call" at the entry of parse, "loop" at the head of   *)
(* the loop of the top frame and "ret" when the parse call made by the top *)
(* frame has returned Ok into parseRes.                                    *)
(***************************************************************************)
\* the parser is at work
InParser(p) == p \in {"call", "loop", "ret"}

Top == stack[Len(stack)]

Pop == SubSeq(stack, 1, Len(stack) - 1)

ReplaceTop(frame) == [stack EXCEPT ![Len(stack)] = frame]

\* return Ok(v) to the caller, the frames st
Return(v, p, st) ==
    /\ parseRes' = [ok |-> TRUE, val |-> v, err |-> ""]
    /\ pos' = p
    /\ stack' = st
    /\ pc' = IF st = <<>> THEN "parsed" ELSE "ret"

\* return Err(e); the ? of every caller passes it on
Fail(e, p) ==
    /\ parseRes' = [ok |-> FALSE, val |-> NullVal, err |-> e]
    /\ pos' = p
    /\ stack' = <<>>
    /\ pc' = "parsed"

\* Parser::new(tokens.unwrap()) and the call of parse
ParserStart ==
    /\ pc = "lexed"
    /\ lexRes = "Ok"
    /\ pc' = "call"
    /\ UNCHANGED <<input, idx, output, lexRes, tokens, pos, parseRes, printed, stack>>

\* parse: the match on next_token
ParseDispatch ==
    /\ pc = "call"
    /\ LET n == next_token(tokens, pos)
       IN  CASE n.tok.t = "CurlyOpen" ->
                  /\ pc' = "loop"
                  /\ pos' = n.pos
                  /\ stack' = Append(stack, [fn |-> "object", acc |-> <<>>,
                                             key |-> <<>>, at |-> n.pos])
                  /\ UNCHANGED parseRes
             [] n.tok.t = "SquareOpen" ->
                  /\ pc' = "loop"
                  /\ pos' = n.pos
                  /\ stack' = Append(stack, [fn |-> "array", acc |-> <<>>,
                                             key |-> <<>>, at |-> n.pos])
                  /\ UNCHANGED parseRes
             [] n.tok.t = "String" -> Return(StringVal(n.tok.s), n.pos, stack)
             [] n.tok.t = "Number" -> Return(NumberVal(n.tok.n), n.pos, stack)
             [] n.tok.t = "Bool" -> Return(BoolVal(n.tok.b), n.pos, stack)
             [] n.tok.t = "Null" -> Return(NullVal, n.pos, stack)
             [] OTHER -> Fail("Unexpected token", n.pos)
    /\ UNCHANGED <<input, idx, output, lexRes, tokens, printed>>

\* parse_object: an iteration of the loop up to the call of parse
ParseObjectIter ==
    /\ pc = "loop"
    /\ Top.fn = "object"
    /\ LET k == next_token(tokens, pos)
       IN  IF k.tok.t = "CurlyClose" THEN Return(ObjectVal(Top.acc), k.pos, Pop)
           ELSE IF k.tok.t = "String"
           THEN LET c == next_token(tokens, k.pos)
                IN  IF c.tok.t = "Colon"
                    THEN /\ pc' = "call"
                         /\ pos' = c.pos
                         /\ stack' = ReplaceTop([Top EXCEPT !.key = k.tok.s])
                         /\ UNCHANGED parseRes
                    ELSE Fail("Expected colon", c.pos)
           ELSE Fail("Expected string key or closing curly brace", k.pos)
    /\ UNCHANGED <<input, idx, output, lexRes, tokens, printed>>

\* parse_object: the rest of the iteration, from the insert on
ParseObjectAfterValue ==
    /\ pc = "ret"
    /\ Top.fn = "object"
    /\ LET map2 == insert(Top.acc, Top.key, parseRes.val)
           s == next_token(tokens, pos)
       IN  IF s.tok.t = "Comma"
           THEN /\ pc' = "loop"
                /\ pos' = s.pos
                /\ stack' = ReplaceTop([Top EXCEPT !.acc = map2, !.at = s.pos])
                /\ UNCHANGED parseRes
           ELSE IF s.tok.t = "CurlyClose" THEN Return(ObjectVal(map2), s.pos, Pop)
           ELSE Fail("Expected comma or closing curly brace", s.pos)
    /\ UNCHANGED <<input, idx, output, lexRes, tokens, printed>>

\* parse_array: an iteration of the loop up to the call of parse
ParseArrayIter ==
    /\ pc = "loop"
    /\ Top.fn = "array"
    /\ IF peek_token(tokens, pos).t = "SquareClose"
       THEN Return(ArrayVal(Top.acc), next_token(tokens, pos).pos, Pop)
       ELSE /\ pc' = "call"
            /\ UNCHANGED <<pos, stack, parseRes>>
    /\ UNCHANGED <<input, idx, output, lexRes, tokens, printed>>

\* parse_array: the rest of the iteration, from the push on
ParseArrayAfterValue ==
    /\ pc = "ret"
    /\ Top.fn = "array"
    /\ LET vec2 == Append(Top.acc, parseRes.val)
           s == peek_token(tokens, pos)
       IN  IF s.t = "Comma"
           THEN /\ pc' = "loop"
                /\ pos' = next_token(tokens, pos).pos
                /\ stack' = ReplaceTop([Top EXCEPT !.acc = vec2, !.at = pos'])
                /\ UNCHANGED parseRes
           ELSE IF s.t = "SquareClose"
           THEN /\ pc' = "loop"
                /\ pos' = pos
                /\ stack' = ReplaceTop([Top EXCEPT !.acc = vec2, !.at = pos])
                /\ UNCHANGED parseRes
           ELSE Fail("Expected comma or closing square bracket", pos)
    /\ UNCHANGED <<input, idx, output, lexRes, tokens, printed>>

(***************************************************************************)
(* Inputs of the driver.  A document is a concatenation of chunks; the     *)
(* families below are every byte string over the string bytes and over the *)
(* number bytes up to a length, every short concatenation of lexemes and   *)
(* of token texts, flat objects with repeated keys, arrays of small        *)
(* values, and small documents with one token replaced or cut off.         *)
(***************************************************************************)
RECURSIVE Concats(_, _)
Concats(chunks, n) ==
    IF n = 0 THEN {<<>>}
    ELSE LET prev == Concats(chunks, n - 1)
         IN  prev \cup {s \o c : s \in prev, c \in chunks}

RECURSIVE Flatten(_)
Flatten(cs) == IF cs = <<>> THEN <<>> ELSE Head(cs) \o Flatten(Tail(cs))

KeyA == <<Quote, "a", Quote>>
KeyB == <<Quote, "b", Quote>>

StrBytes == {<<Quote>>, <<Backslash>>, <<"a">>, <<",">>}

NumBytes == {<<"0">>, <<"1">>, <<"5">>, <<".">>, <<"-">>, <<"e">>}

DocChunks ==
    { <<"[">>, <<"]">>, <<"}">>, <<",">>, <<" ">>,
      KeyA, <<Quote, Quote>>,
      <<"1">>, <<"1", "e", "5">>, <<"1", "E", "5">>, <<"-", ".", "5">>,
      <<"{">> \o KeyA \o <<":">> }

LitChunks ==
    { <<"[">>, <<",">>,
      <<"n", "u", "l", "l">>, <<"t", "r", "u", "e">>, <<"f", "a", "l", "s", "e">>,
      <<"n", "u", "l">>, <<"t", "r", "u">>, <<"f">>,
      <<Lead, Cont>> }

TokChunks == {<<"{">>, <<"}">>, <<"[">>, <<"]">>, <<",">>, <<":">>, KeyA, <<"1">>}

\* chunk sequences  k:v,k:v,...  with n pairs
RECURSIVE PairSeqs(_, _, _)
PairSeqs(keys, vals, n) ==
    IF n = 0 THEN {<<>>}
    ELSE IF n = 1 THEN {<<k, <<":">>, v>> : k \in keys, v \in vals}
    ELSE {ps \o <<<<",">>, k, <<":">>, v>> :
             ps \in PairSeqs(keys, vals, n - 1), k \in keys, v \in vals}

ObjectDocs ==
    {Flatten(<<<<"{">>>> \o ps \o tail) :
        ps \in UNION {PairSeqs({KeyA, KeyB}, {<<"1">>, <<"2">>, <<Quote, Quote>>}, n) :
                         n \in 0..MaxPairs},
        tail \in {<<<<"}">>>>, <<<<",">>, <<"}">>>>}}

Elems ==
    { <<"1">>, KeyA, <<"[", "]">>,
      <<"[", "1", ",", "]">>, <<"{">> \o KeyA \o <<":", "1", "}">> }

\* chunk sequences  v,v,...  with n elements
RECURSIVE ElemSeqs(_)
ElemSeqs(n) ==
    IF n = 0 THEN {<<>>}
    ELSE IF n = 1 THEN {<<v>> : v \in Elems}
    ELSE {es \o <<<<",">>, v>> : es \in ElemSeqs(n - 1), v \in Elems}

ArrayDocs ==
    {Flatten(<<<<"[">>>> \o es \o tail) :
        es \in UNION {ElemSeqs(n) : n \in 0..MaxElems},
        tail \in {<<<<"]">>>>, <<<<",">>, <<"]">>>>, <<<<",">>, <<",">>, <<"]">>>>}}

Wrappers ==
    { <<<<>>, <<>>>>,
      <<<<<<"[">>>>, <<<<"]">>>>>>,
      <<<<<<"{">>, KeyA, <<":">>>>, <<<<"}">>>>>> }

BaseDocs ==
    {w[1] \o <<<<"{">>>> \o ps \o <<<<"}">>>> \o w[2] :
        w \in Wrappers,
        ps \in UNION {PairSeqs({KeyA}, {<<"1">>}, n) : n \in 0..MaxMutPairs}}

\* one chunk replaced, or the document cut off before a chunk
MutatedDocs ==
    UNION {
      {Flatten([cs EXCEPT ![i] = c]) : i \in 1..Len(cs), c \in TokChunks \cup {<<"n", "u", "l", "l">>}}
        \cup {Flatten(SubSeq(cs, 1, i - 1)) : i \in 1..Len(cs)}
      : cs \in BaseDocs}

\* integers of 16 digits, alone and as the value of a key
Nines == [i \in 1..Len(TwoTo53) |-> "9"]

WideNumbers == {Nines, [Nines EXCEPT ![Len(Nines)] = "7"], [Nines EXCEPT ![Len(Nines)] = "8"], TwoTo53}

WideDocs ==
    WideNumbers
      \cup {<<"{">> \o KeyA \o <<":">> \o w \o t : w \in WideNumbers, t \in {<<"}">>, <<" ", "}">>}}

\* the inputs of the tests of lexer.rs
TestInputs ==
    {
      <<"[", "]", "{", "}", ":", ",">>,
      <<"2", "4", "5">>,
      <<"2", "4", "5", ".", "2", "3">>,
      <<"-", "2", "4", "5">>,
      <<"-", "2", "4", "5", ".", "2", "3">>,
      <<Quote, "A", "b", "c", "-", "2", "4", "3", ".", "a", "b", "c", "0",
        "0", Quote>>,
      <<Quote, "A", "b", "c", "-", "2", "4", "3", ".", Backslash, Quote,
        "a", "b", "c", "0", "0", Quote>>,
      <<"n", "u", "l", "l">>,
      <<"f", "a", "l", "s", "e">>,
      <<"t", "r", "u", "e">>,
      <<"{", "\n", " ", " ", " ", " ", " ", " ", " ", " ", " ", " ", " ",
        " ", Quote, "s", "t", "r", Quote, ":", " ", Quote, "v", "a", "l",
        "u", "e", Quote, ",", "\n", " ", " ", " ", " ", " ", " ", " ", " ",
        " ", " ", " ", " ", Quote, "n", "u", "m", Quote, ":", " ", "1",
        "2", "3", ",", "\n", " ", " ", " ", " ", " ", " ", " ", " ", " ",
        " ", " ", " ", Quote, "b", "o", "o", "l", Quote, ":", " ", "t",
        "r", "u", "e", ",", "\n", " ", " ", " ", " ", " ", " ", " ", " ",
        " ", " ", " ", " ", Quote, "n", "u", "l", "l", Quote, ":", " ",
        "n", "u", "l", "l", "\n", " ", " ", " ", " ", " ", " ", " ", " ",
        " ", " ", " ", " ", "}">> }

Init ==
    /\ \/ input \in Concats(StrBytes, MaxStrLen)
       \/ input \in Concats(NumBytes, MaxNumLen)
       \/ input \in Concats(DocChunks, MaxChunks)
       \/ input \in Concats(LitChunks, MaxChunks)
       \/ input \in Concats(TokChunks, MaxTokens)
       \/ input \in ObjectDocs
       \/ input \in ArrayDocs
       \/ input \in MutatedDocs
       \/ input \in WideDocs
       \/ input \in TestInputs
    /\ idx = 0
    /\ output = <<>>
    /\ lexRes = "none"
    /\ tokens = <<>>
    /\ pos = 0
    /\ parseRes = NoResult
    /\ printed = ""
    /\ pc = "tokenize"
    /\ stack = <<>>

Next ==
    \/ TokenizeStep
    \/ TokenizeReturn
    \/ MainUnwrapPanic
    \/ MainParse
    \/ MainPrint

Spec == Init /\ [][Next]_vars

\* The driver with the parser running step by step
ParserNext ==
    \/ TokenizeStep
    \/ TokenizeReturn
    \/ MainUnwrapPanic
    \/ ParserStart
    \/ ParseDispatch
    \/ ParseObjectIter
    \/ ParseObjectAfterValue
    \/ ParseArrayIter
    \/ ParseArrayAfterValue
    \/ MainPrint

ParserSpec == Init /\ [][ParserNext]_vars

ParserStep ==
    \/ ParseDispatch
    \/ ParseObjectIter
    \/ ParseObjectAfterValue
    \/ ParseArrayIter
    \/ ParseArrayAfterValue

\* Weak fairness of the parser, sequential code as well: one of its steps
\* is possible exactly while pc is "call", "loop" or "ret".
ParserFairness == <>[]InParser(pc) => []<><<ParserStep>>_vars

FairParserSpec == ParserSpec /\ ParserFairness

\* Weak fairness of the tokenize loop: it is sequential code that runs on
\* until it returns.  A step of the loop is possible exactly while pc is
\* "tokenize" (one of TokenizeStep and TokenizeReturn has its guard true,
\* and each changes idx or pc), so the fairness condition
\* WF_vars(TokenizeStep \/ TokenizeReturn) is written with that state
\* predicate in the place of ENABLED.
TokenizeFairness ==
    <>[](pc = "tokenize") => []<><<TokenizeStep \/ TokenizeReturn>>_vars

FairSpec == Spec /\ TokenizeFairness

(***************************************************************************)
(* Claims.                                                                 *)
(***************************************************************************)

\* C1: tokenize ends with a token sequence or one of InvalidString,
\* InvalidNumber, InvalidLiteral and never aborts; when it ends at 'n', 't'
\* or 'f' with fewer than 4, 4 or 5 bytes left, it has returned
\* InvalidLiteral.
C1_TokenizeNeverAborts ==
    /\ lexRes \in {"none", "Ok", "InvalidString", "InvalidNumber", "InvalidLiteral"}
    /\ (/\ pc # "tokenize"
        /\ idx < Len(input)
        /\ \/ (At(input, idx) \in {"n", "t"} /\ Len(input) - idx < 4)
           \/ (At(input, idx) = "f" /\ Len(input) - idx < 5))
       => lexRes = "InvalidLiteral"

(***************************************************************************)
(* The JSON grammar of a scalar document and the value it denotes, for C2. *)
(***************************************************************************)
RECURSIVE DigitRun(_, _)
DigitRun(s, i) == IF i <= Len(s) /\ s[i] \in Digits THEN 1 + DigitRun(s, i + 1) ELSE 0

RECURSIVE NatOf(_)
NatOf(ds) ==
    IF ds = <<>> THEN 0
    ELSE 10 * NatOf(SubSeq(ds, 1, Len(ds) - 1)) + DigitVal(ds[Len(ds)])

Zeros(n) == [i \in 1..(IF n > 0 THEN n ELSE 0) |-> "0"]

\* the decimal int.frac times 10^k
ShiftPoint(int, frac, k) ==
    IF k >= 0
    THEN LET padded == frac \o Zeros(k - Len(frac))
         IN  <<int \o SubSeq(padded, 1, k), SubSeq(padded, k + 1, Len(padded))>>
    ELSE LET m == 0 - k
             padded == Zeros(m - Len(int)) \o int
         IN  <<SubSeq(padded, 1, Len(padded) - m),
               SubSeq(padded, Len(padded) - m + 1, Len(padded)) \o frac>>

\* -? (0 | [1-9][0-9]*) (. [0-9]+)? ([eE] [+-]? [0-9]+)?
JsonNumber(s) ==
    LET a == IF s # <<>> /\ s[1] = "-" THEN 2 ELSE 1
        ni == DigitRun(s, a)
        b == a + ni
        hasFrac == b <= Len(s) /\ s[b] = "."
        nf == IF hasFrac THEN DigitRun(s, b + 1) ELSE 0
        c == IF hasFrac THEN b + 1 + nf ELSE b
        hasExp == c <= Len(s) /\ s[c] \in {"e", "E"}
        sgn == hasExp /\ c + 1 <= Len(s) /\ s[c + 1] \in {"+", "-"}
        d == IF hasExp THEN (IF sgn THEN c + 2 ELSE c + 1) ELSE c
        ne == IF hasExp THEN DigitRun(s, d) ELSE 0
        ok == /\ ni >= 1
              /\ (ni = 1 \/ s[a] # "0")
              /\ (hasFrac => nf >= 1)
              /\ (hasExp => ne >= 1)
              /\ d + ne = Len(s) + 1
        exp == IF hasExp THEN NatOf(SubSeq(s, d, d + ne - 1)) ELSE 0
        sh == ShiftPoint(SubSeq(s, a, b - 1), SubSeq(s, b + 1, b + nf),
                         IF sgn /\ s[c + 1] = "-" THEN 0 - exp ELSE exp)
    IN  IF ok THEN [ok |-> TRUE, val |-> NumberVal(F64(a = 2, sh[1], sh[2]))]
        ELSE [ok |-> FALSE, val |-> NullVal]

\* no bare quote and only the two-character escapes of JSON from s[i] on
RECURSIVE JsonChars(_, _)
JsonChars(s, i) ==
    IF i > Len(s) THEN TRUE
    ELSE IF s[i] = Backslash
    THEN /\ i + 1 <= Len(s)
         /\ s[i + 1] \in {Quote, Backslash, "/", "b", "f", "n", "r", "t"}
         /\ JsonChars(s, i + 2)
    ELSE s[i] # Quote /\ JsonChars(s, i + 1)

JsonScalar(s) ==
    IF s = <<"n", "u", "l", "l">> THEN [ok |-> TRUE, val |-> NullVal]
    ELSE IF s = <<"t", "r", "u", "e">> THEN [ok |-> TRUE, val |-> BoolVal(TRUE)]
    ELSE IF s = <<"f", "a", "l", "s", "e">> THEN [ok |-> TRUE, val |-> BoolVal(FALSE)]
    ELSE IF Len(s) >= 2 /\ s[1] = Quote /\ s[Len(s)] = Quote
    THEN LET body == SubSeq(s, 2, Len(s) - 1)
         IN  IF JsonChars(body, 1) /\ Utf8Valid(body)
             THEN [ok |-> TRUE, val |-> StringVal(body)]
             ELSE [ok |-> FALSE, val |-> NullVal]
    ELSE JsonNumber(s)

\* C2: an input that is one valid JSON scalar tokenizes and parses to Ok
\* with the value of the matching variant holding the decoded content.
C2_ScalarsParse ==
    LET ref == JsonScalar(input)
    IN  ref.ok =>
          /\ pc # "tokenize" => lexRes = "Ok"
          /\ pc \in {"parsed", "done"} =>
                 parseRes = [ok |-> TRUE, val |-> ref.val, err |-> ""]

\* C3: the string scan at an opening quote ends at the first later quote
\* that is the first byte after the opening quote or is not preceded by a
\* backslash; the step emits String of the bytes in between and resumes
\* right after that quote.
C3_ClosingQuote ==
    [][(pc = "tokenize" /\ idx < Len(input) /\ At(input, idx) = Quote) =>
          LET closers == {c \in (idx + 1)..(Len(input) - 1) :
                            /\ At(input, c) = Quote
                            /\ (c = idx + 1 \/ At(input, c - 1) # Backslash)}
          IN  closers # {} =>
                LET c == CHOOSE q \in closers : \A r \in closers : q <= r
                IN  /\ output' = Append(output, StringTok(Slice(input, idx + 1, c)))
                    /\ idx' = c + 1]_vars

\* C4: a successful parse has consumed every token of the sequence.
C4_AllConsumed ==
    (pc \in {"parsed", "done"} /\ parseRes.ok) => pos = Len(tokens)

IsScalarTok(tok) == tok.t \in {"String", "Number", "Bool", "Null"}

\* CurlyOpen (String Colon scalar Comma)^k CurlyClose with k >= 1
TrailingCommaObject(toks) ==
    /\ Len(toks) >= 6
    /\ (Len(toks) - 2) % 4 = 0
    /\ toks[1] = CurlyOpen
    /\ toks[Len(toks)] = CurlyClose
    /\ \A j \in 0..((Len(toks) - 2) \div 4 - 1) :
          /\ toks[4 * j + 2].t = "String"
          /\ toks[4 * j + 3] = Colon
          /\ IsScalarTok(toks[4 * j + 4])
          /\ toks[4 * j + 5] = Comma

\* C5: an object whose last key/value pair is followed by Comma and then
\* CurlyClose fails to parse.
C5_ObjectTrailingCommaRejected ==
    (pc \in {"parsed", "done"} /\ TrailingCommaObject(tokens)) => ~parseRes.ok

\* digits, 'e' or 'E', digits
ExponentNumber(s) ==
    LET n == DigitRun(s, 1)
    IN  /\ n >= 1
        /\ n + 1 <= Len(s)
        /\ s[n + 1] \in {"e", "E"}
        /\ DigitRun(s, n + 2) >= 1
        /\ n + 1 + DigitRun(s, n + 2) = Len(s)

ExponentDoc(s) ==
    \/ ExponentNumber(s)
    \/ /\ Len(s) >= 2 /\ s[1] = "[" /\ s[Len(s)] = "]"
       /\ ExponentNumber(SubSeq(s, 2, Len(s) - 1))
    \/ /\ Len(s) >= 6 /\ SubSeq(s, 1, 5) = <<"{">> \o KeyA \o <<":">> /\ s[Len(s)] = "}"
       /\ ExponentNumber(SubSeq(s, 6, Len(s) - 1))

\* C7: a number in exponent notation, alone or as an array element or
\* object value, yields no token sequence with a Number without an error
\* and no successful parse.
C7_ExponentRejected ==
    ExponentDoc(input) =>
        /\ ~(lexRes = "Ok" /\ \E i \in 1..Len(tokens) : tokens[i].t = "Number")
        /\ ~parseRes.ok

TokAt(toks, i) == IF i >= 1 /\ i <= Len(toks) THEN toks[i] ELSE NoneTok

Min(a, b) == IF a <= b THEN a ELSE b

\* the value a scalar token stands for
ScalarValue(tok) ==
    CASE tok.t = "String" -> StringVal(tok.s)
      [] tok.t = "Number" -> NumberVal(tok.n)
      [] tok.t = "Bool" -> BoolVal(tok.b)
      [] tok.t = "Null" -> NullVal

\* SquareOpen (scalar Comma)^n SquareClose with n >= 1
TrailingCommaScalarArray(toks) ==
    /\ Len(toks) >= 4
    /\ Len(toks) % 2 = 0
    /\ toks[1] = SquareOpen
    /\ toks[Len(toks)] = SquareClose
    /\ \A j \in 1..((Len(toks) - 2) \div 2) :
          IsScalarTok(toks[2 * j]) /\ toks[2 * j + 1] = Comma

\* C6: an array  [ v1 , ... vn , ]  with n >= 1 parses to the same Array
\* as  [ v1 , ... vn ]  (for scalar elements, the Array of their values in
\* order); a Comma right after SquareOpen fails, and no successful parse
\* consumes two consecutive Commas.
C6_ArrayTrailingComma ==
    (pc \in {"parsed", "done"} /\ TokAt(tokens, 1) = SquareOpen) =>
        LET n == Len(tokens)
            short == SubSeq(tokens, 1, n - 2) \o <<SquareClose>>
            r == parse(short, 0)
        IN  /\ (/\ n >= 4
                /\ tokens[n] = SquareClose
                /\ tokens[n - 1] = Comma
                /\ tokens[n - 2] # Comma
                /\ r.ok
                /\ r.pos = Len(short)
                /\ Len(r.val.a) >= 1)
               => /\ parseRes = [ok |-> TRUE, val |-> r.val, err |-> ""]
                  /\ pos = n
            /\ TrailingCommaScalarArray(tokens) =>
                  /\ parseRes.ok
                  /\ parseRes.val =
                       ArrayVal([j \in 1..((n - 2) \div 2) |-> ScalarValue(tokens[2 * j])])
            /\ TokAt(tokens, 2) = Comma => ~parseRes.ok
            /\ \A i \in 1..(n - 1) :
                  (tokens[i] = Comma /\ tokens[i + 1] = Comma) =>
                      ~(parseRes.ok /\ pos > i)

C6_Witness ==
    /\ pc = "done"
    /\ Len(tokens) >= 6
    /\ tokens[1] = SquareOpen
    /\ tokens[Len(tokens)] = SquareClose
    /\ tokens[Len(tokens) - 1] = Comma
    /\ parseRes.ok
    /\ parseRes.val.t = "Array"
    /\ Len(parseRes.val.a) >= 2
    /\ pos = Len(tokens)

\* index of the first token after the complete groups
\* String Colon scalar Comma  that start at toks[i]
RECURSIVE SkipPairs(_, _)
SkipPairs(toks, i) ==
    IF /\ i + 3 <= Len(toks)
       /\ toks[i].t = "String"
       /\ toks[i + 1] = Colon
       /\ IsScalarTok(toks[i + 2])
       /\ toks[i + 3] = Comma
    THEN SkipPairs(toks, i + 4)
    ELSE i

\* [err, at]: the message an object opened at toks[o] has to fail with when
\* the token at index at (possibly the end of the input) is wrong for the
\* state reached after the leading complete pairs; err = "" otherwise
ObjectFailure(toks, o) ==
    LET j == SkipPairs(toks, o + 1)
        k == TokAt(toks, j)
        c == TokAt(toks, j + 1)
        v == TokAt(toks, j + 2)
        s == TokAt(toks, j + 3)
    IN  IF k.t \notin {"String", "CurlyClose"}
        THEN [err |-> "Expected string key or closing curly brace", at |-> j]
        ELSE IF k.t = "String" /\ c.t # "Colon"
        THEN [err |-> "Expected colon", at |-> j + 1]
        ELSE IF k.t = "String" /\ IsScalarTok(v) /\ s.t \notin {"Comma", "CurlyClose"}
        THEN [err |-> "Expected comma or closing curly brace", at |-> j + 3]
        ELSE [err |-> "", at |-> 0]

\* the objects at the top level, as first array element and as first
\* object value
ObjectStarts(toks) ==
    {o \in {1, 2, 4} :
        /\ TokAt(toks, o) = CurlyOpen
        /\ o = 2 => toks[1] = SquareOpen
        /\ o = 4 => (toks[1] = CurlyOpen /\ toks[2].t = "String" /\ toks[3] = Colon)}

\* C8: parse_object fails with "Expected string key or closing curly
\* brace" in key position, "Expected colon" after a key, "Expected comma or
\* closing curly brace" after a value, at the first wrong token (or the
\* end of input); that failure, also of a nested value, is the result of
\* the whole parse and is what the driver prints.
C8_ObjectErrors ==
    pc \in {"parsed", "done"} =>
        /\ \A o \in ObjectStarts(tokens) :
              LET f == ObjectFailure(tokens, o)
              IN  f.err # "" =>
                    /\ parseRes = [ok |-> FALSE, val |-> NullVal, err |-> f.err]
                    /\ pos = Min(f.at, Len(tokens))
        /\ (TokAt(tokens, 1) = CurlyOpen /\ TokAt(tokens, 2).t = "String"
              /\ TokAt(tokens, 3) = Colon) =>
              LET inner == parse(tokens, 3)
              IN  /\ ~inner.ok =>
                        /\ parseRes = [ok |-> FALSE, val |-> NullVal, err |-> inner.err]
                        /\ pos = inner.pos
                  /\ (inner.ok /\ TokAt(tokens, inner.pos + 1).t \notin {"Comma", "CurlyClose"}) =>
                        /\ parseRes = [ok |-> FALSE, val |-> NullVal,
                                       err |-> "Expected comma or closing curly brace"]
                        /\ pos = Min(inner.pos + 1, Len(tokens))
        /\ (TokAt(tokens, 1) = SquareOpen /\ TokAt(tokens, 2) # SquareClose) =>
              LET inner == parse(tokens, 1)
              IN  ~inner.ok =>
                    /\ parseRes = [ok |-> FALSE, val |-> NullVal, err |-> inner.err]
                    /\ pos = inner.pos
        /\ (pc = "done" /\ ~parseRes.ok) => printed = parseRes.err

C8_Witness ==
    /\ pc = "done"
    /\ Len(tokens) >= 4
    /\ tokens[1] = SquareOpen
    /\ tokens[2] = CurlyOpen
    /\ tokens[3].t = "String"
    /\ tokens[4].t = "Number"
    /\ parseRes.err = "Expected colon"
    /\ printed = "Expected colon"
    /\ pos = 4

\* CurlyOpen String Colon scalar (Comma String Colon scalar)* CurlyClose
FlatObject(toks) ==
    /\ Len(toks) >= 5
    /\ (Len(toks) - 1) % 4 = 0
    /\ toks[1] = CurlyOpen
    /\ \A j \in 1..((Len(toks) - 1) \div 4) :
          /\ toks[4 * j - 2].t = "String"
          /\ toks[4 * j - 1] = Colon
          /\ IsScalarTok(toks[4 * j])
          /\ toks[4 * j + 1] = (IF 4 * j + 1 = Len(toks) THEN CurlyClose ELSE Comma)

\* C9: a flat object parses to an Object whose keys are the String keys of
\* the sequence, each mapped to the value of its last occurrence.
C9_LastKeyWins ==
    (pc \in {"parsed", "done"} /\ FlatObject(tokens)) =>
        LET n == (Len(tokens) - 1) \div 4
        IN  /\ parseRes.ok
            /\ parseRes.val.t = "Object"
            /\ DOMAIN parseRes.val.m = {tokens[4 * j - 2].s : j \in 1..n}
            /\ \A j \in 1..n :
                  (\A h \in (j + 1)..n : tokens[4 * h - 2].s # tokens[4 * j - 2].s)
                      => parseRes.val.m[tokens[4 * j - 2].s] = ScalarValue(tokens[4 * j])

C9_Witness ==
    /\ pc = "done"
    /\ FlatObject(tokens)
    /\ Len(tokens) = 13
    /\ tokens[2] = tokens[10]
    /\ tokens[2] # tokens[6]
    /\ tokens[4] # tokens[12]
    /\ parseRes.ok
    /\ parseRes.val.m[tokens[2].s] = ScalarValue(tokens[12])

\* C10: a step at an opening quote that emits a token emits the String of
\* the bytes up to the closing quote, unchanged; the closing quote is not
\* preceded by a backslash, every quote it passed after the first byte is
\* preceded by a backslash, and the scan resumes right after the closing
\* quote.
C10_EscapedQuoteKept ==
    [][(/\ pc = "tokenize"
        /\ idx < Len(input)
        /\ At(input, idx) = Quote
        /\ Len(output') = Len(output) + 1) =>
          LET tok == output'[Len(output')]
              close == idx + 1 + Len(tok.s)
          IN  /\ tok.t = "String"
              /\ close < Len(input)
              /\ tok.s = Slice(input, idx + 1, close)
              /\ At(input, close) = Quote
              /\ At(input, close - 1) # Backslash
              /\ \A j \in (idx + 2)..(close - 1) :
                    At(input, j) = Quote => At(input, j - 1) = Backslash
              /\ idx' = close + 1]_vars

C10_Witness ==
    /\ pc = "tokenize"
    /\ Len(output) = 1
    /\ output[1].t = "String"
    /\ Len(output[1].s) >= 4
    /\ \E i \in 2..(Len(output[1].s) - 2) :
          output[1].s[i] = Backslash /\ output[1].s[i + 1] = Quote
    /\ idx = Len(output[1].s) + 2
    /\ idx = Len(input)

(***************************************************************************)
(* tokenize as a function of the whole input, for the claims that compare  *)
(* the results on two inputs.                                              *)
(***************************************************************************)
RECURSIVE tokenize_loop(_, _, _)
\* the while loop of tokenize from position i with the tokens out pushed
tokenize_loop(in, i, out) ==
    IF i >= Len(in) THEN [res |-> "Ok", tokens |-> out]
    ELSE LET val == get_token(in, i)
         IN  IF val.err # "none" THEN [res |-> val.err, tokens |-> <<>>]
             ELSE IF val.tok # WhiteSpace
             THEN tokenize_loop(in, i + Advance(val.tok), Append(out, val.tok))
             ELSE tokenize_loop(in, i + 1, out)

tokenize(in) == tokenize_loop(in, 0, <<>>)

(***************************************************************************)
(* The lexemes of a JSON text (1-based first and last byte of each), and   *)
(* the flat objects of JSON scalars, for C11.                              *)
(***************************************************************************)
StructuralBytes == {"{", "}", "[", "]", ",", ":"}

WhiteBytes == {" ", "\t", "\n"}

\* the closing quote of the string whose content starts at s[j]; 0 if none
RECURSIVE StringEnd(_, _)
StringEnd(s, j) ==
    IF j > Len(s) THEN 0
    ELSE IF s[j] = Backslash THEN StringEnd(s, j + 2)
    ELSE IF s[j] = Quote THEN j
    ELSE StringEnd(s, j + 1)

\* the last byte of the number or literal that starts at s[j]
RECURSIVE WordEnd(_, _)
WordEnd(s, j) ==
    IF j + 1 <= Len(s) /\ s[j + 1] \notin StructuralBytes \cup WhiteBytes \cup {Quote}
    THEN WordEnd(s, j + 1)
    ELSE j

RECURSIVE JsonLexemes(_, _)
JsonLexemes(s, i) ==
    IF i > Len(s) THEN <<>>
    ELSE IF s[i] \in WhiteBytes THEN JsonLexemes(s, i + 1)
    ELSE LET e == IF s[i] \in StructuralBytes THEN i
                  ELSE IF s[i] = Quote
                  THEN (IF StringEnd(s, i + 1) = 0 THEN Len(s) ELSE StringEnd(s, i + 1))
                  ELSE WordEnd(s, i)
         IN  <<[a |-> i, b |-> e]>> \o JsonLexemes(s, e + 1)

\* { }  or  { "k" : scalar , "k" : scalar ... }
WellFormedFlatObject(s) ==
    LET ls == JsonLexemes(s, 1)
        n == Len(ls)
        text(k) == SubSeq(s, ls[k].a, ls[k].b)
    IN  /\ n >= 2
        /\ text(1) = <<"{">>
        /\ text(n) = <<"}">>
        /\ n = 2 \/ n % 4 = 1
        /\ \A k \in 2..(n - 1) :
              CASE k % 4 = 2 -> text(k)[1] = Quote /\ JsonScalar(text(k)).ok
                [] k % 4 = 3 -> text(k) = <<":">>
                [] k % 4 = 0 -> JsonScalar(text(k)).ok
                [] OTHER -> text(k) = <<",">>

\* the positions after which the next lexeme starts
LexemeGaps(s) ==
    LET ls == JsonLexemes(s, 1)
    IN  {ls[k].b : k \in 1..(Len(ls) - 1)}

WhiteRuns == Concats({<<" ">>, <<"\t">>, <<"\n">>}, 2) \ {<<>>}

\* the lexemes of s with nothing between them
Unspaced(s) ==
    LET ls == JsonLexemes(s, 1)
    IN  Flatten([k \in 1..Len(ls) |-> SubSeq(s, ls[k].a, ls[k].b)])

\* the contents of the key lexemes of a flat object
FlatObjectKeys(s) ==
    LET ls == JsonLexemes(s, 1)
    IN  {SubSeq(s, ls[k].a + 1, ls[k].b - 1) : k \in {j \in 2..(Len(ls) - 1) : j % 4 = 2}}

\* C11: white space put between two lexemes of a well-formed flat object,
\* or taken away from between them, changes neither the result of tokenize
\* nor the token sequence it returns; the sequence holds no WhiteSpace
\* token; and when the parse succeeds the value is the Object that holds
\* every key of the text.
C11_WhitespaceBetweenTokens ==
    (pc \in {"lexed", "parsed", "done"} /\ WellFormedFlatObject(input)) =>
        /\ \A g \in LexemeGaps(input), w \in WhiteRuns :
              LET spaced == SubSeq(input, 1, g) \o w \o SubSeq(input, g + 1, Len(input))
                  r == tokenize(spaced)
              IN  /\ r.res = lexRes
                  /\ r.tokens = tokens
                  /\ \A k \in 1..Len(r.tokens) : r.tokens[k] # WhiteSpace
        /\ tokenize(Unspaced(input)) = [res |-> lexRes, tokens |-> tokens]
        /\ \A k \in 1..Len(tokens) : tokens[k] # WhiteSpace
        /\ (pc \in {"parsed", "done"} /\ parseRes.ok) =>
              /\ parseRes.val.t = "Object"
              /\ DOMAIN parseRes.val.m = FlatObjectKeys(input)

\* the token of a structural byte
StructuralToken(b) ==
    CASE b = "{" -> CurlyOpen
      [] b = "}" -> CurlyClose
      [] b = "[" -> SquareOpen
      [] b = "]" -> SquareClose
      [] b = "," -> Comma
      [] b = ":" -> Colon

\* C12: on an input of structural bytes only, the tokens pushed after idx
\* bytes are the tokens of these bytes in their order, one a byte, and the
\* sequence tokenize returns is the one of the whole input.
C12_StructuralBytes ==
    (\A k \in 1..Len(input) : input[k] \in StructuralBytes) =>
        /\ pc = "tokenize" =>
              /\ idx <= Len(input)
              /\ output = [k \in 1..idx |-> StructuralToken(input[k])]
        /\ pc # "tokenize" =>
              /\ lexRes = "Ok"
              /\ tokens = [k \in 1..Len(input) |-> StructuralToken(input[k])]

\* the input of tests::all_syntax has been tokenized
C12_Witness ==
    /\ pc = "lexed"
    /\ input = <<"[", "]", "{", "}", ":", ",">>
    /\ Len(tokens) = 6

\* the quotes after the opening quote at 0-based position i that are its
\* first following byte or are not preceded by a backslash
ClosingQuotes(in, i) ==
    {c \in (i + 1)..(Len(in) - 1) :
        /\ At(in, c) = Quote
        /\ (c = i + 1 \/ At(in, c - 1) # Backslash)}

\* C13: the step at an opening quote that no later quote closes ends
\* tokenize with InvalidString, and nothing of the tokens pushed so far is
\* returned.
C13_UnterminatedString ==
    [][(/\ pc = "tokenize"
        /\ idx < Len(input)
        /\ At(input, idx) = Quote
        /\ ClosingQuotes(input, idx) = {}) =>
          (/\ pc' = "lexed"
           /\ lexRes' = "InvalidString"
           /\ output' = <<>>
           /\ tokens' = <<>>)]_vars

\* tokenize has ended with InvalidString at an opening quote that nothing
\* closes, after a structural byte had given a token
C13_Witness ==
    /\ pc = "lexed"
    /\ lexRes = "InvalidString"
    /\ idx >= 1
    /\ At(input, idx) = Quote
    /\ ClosingQuotes(input, idx) = {}
    /\ At(input, 0) \in StructuralBytes
    /\ tokens = <<>>

\* impl Display for TokenizerError
TokenizerErrorMessage(e) ==
    CASE e = "InvalidString" -> "Invalid string token"
      [] e = "InvalidNumber" -> "Invalid number token"
      [] e = "InvalidLiteral" -> "Invalid literal token"

\* C14: after tokenize has returned a TokenizerError the driver does not
\* abort, and when it has ended it has printed the message of that error.
C14_TokenizerErrorReported ==
    lexRes \in {"InvalidString", "InvalidNumber", "InvalidLiteral"} =>
        /\ pc # "aborted"
        /\ pc = "done" => printed = TokenizerErrorMessage(lexRes)

\* the length of the run of digits, '.' and '-' from 0-based position i
RECURSIVE NumberRun(_, _)
NumberRun(in, i) ==
    IF i < Len(in) /\ IsNumberByte(At(in, i)) THEN 1 + NumberRun(in, i + 1) ELSE 0

\* the bytes that were read for the token pushed at position i
SourceWidth(in, i, tok) ==
    CASE tok.t = "Number" -> NumberRun(in, i)
      [] tok.t = "String" -> Len(tok.s) + 2
      [] tok = NullTok \/ tok = BoolTok(TRUE) -> 4
      [] tok = BoolTok(FALSE) -> 5
      [] OTHER -> 1

\* C15: a step that pushes a token moves the position to the end of the
\* bytes read for that token; for a Number that is the end of the run of
\* digits, '.' and '-' that was parsed.
C15_PositionSynchronized ==
    [][(pc = "tokenize" /\ pc' = "tokenize" /\ Len(output') = Len(output) + 1) =>
          idx' = idx + SourceWidth(input, idx, output'[Len(output')])]_vars

\* an optional leading '-', then digits with at most one '.' among them and
\* one digit at least
WellShapedRun(run) ==
    /\ \A k \in 2..Len(run) : run[k] # "-"
    /\ Cardinality({k \in 1..Len(run) : run[k] = "."}) <= 1
    /\ \E k \in 1..Len(run) : run[k] \in Digits

\* the value of a well-shaped run: the run is brought to the JSON form (no
\* leading zeros, a digit on both sides of the '.') and read by JsonNumber
RunValue(run) ==
    LET neg == run[1] = "-"
        body == IF neg THEN Tail(run) ELSE run
        d == CHOOSE k \in 1..(Len(body) + 1) : k = Len(body) + 1 \/ body[k] = "."
        int == StripLeadingZeros(SubSeq(body, 1, d - 1))
        frac == SubSeq(body, d + 1, Len(body))
    IN  JsonNumber((IF neg THEN <<"-">> ELSE <<>>)
                   \o (IF int = <<>> THEN <<"0">> ELSE int)
                   \o (IF frac = <<>> THEN <<>> ELSE <<".">> \o frac)).val.n

\* C16: the step at a digit or '-' reads the whole run of digits, '.' and
\* '-' from the position: when the run is well shaped it pushes the Number
\* of the value of the whole run, otherwise tokenize ends with
\* InvalidNumber, whatever follows the run.
C16_NumberRun ==
    [][(pc = "tokenize" /\ idx < Len(input) /\ At(input, idx) \in Digits \cup {"-"}) =>
          LET run == Slice(input, idx, idx + NumberRun(input, idx))
          IN  IF WellShapedRun(run)
              THEN /\ pc' = "tokenize"
                   /\ output' = Append(output, NumberTok(RunValue(run)))
              ELSE /\ pc' = "lexed"
                   /\ lexRes' = "InvalidNumber"
                   /\ output' = <<>>]_vars

\* tokenize has ended with InvalidNumber at a run of three bytes with a '-'
\* in the middle that other bytes follow
C16_Witness ==
    /\ pc = "lexed"
    /\ lexRes = "InvalidNumber"
    /\ NumberRun(input, idx) = 3
    /\ At(input, idx) \in Digits
    /\ At(input, idx + 1) = "-"
    /\ At(input, idx + 2) \in Digits
    /\ Len(input) > idx + 3

\* C17: an iteration of the tokenize loop that does not end tokenize moves
\* the position forward by one byte at least and pushes one token at most;
\* at a position at or past the end of the input tokenize returns the
\* pushed tokens; there are never more tokens than input bytes; and
\* tokenize comes to an end.
C17_TokenizeTerminates ==
    /\ [][pc = "tokenize" =>
            /\ Len(output') <= Len(input)
            /\ Len(tokens') <= Len(input)
            /\ IF idx >= Len(input)
               THEN pc' = "lexed" /\ lexRes' = "Ok" /\ tokens' = output
               ELSE pc' = "tokenize" =>
                       /\ idx' >= idx + 1
                       /\ Len(output') <= Len(output) + 1]_vars
    /\ <>(pc # "tokenize")

\* tokenize has returned the tokens of the document of tests::valid_json,
\* Strings and a Number among them, the position at the end of the input
C17_Witness ==
    /\ pc = "lexed"
    /\ lexRes = "Ok"
    /\ idx = Len(input)
    /\ Len(tokens) > 10
    /\ \E k \in 1..Len(tokens) : tokens[k].t = "Number"
    /\ \E k \in 1..Len(tokens) : tokens[k].t = "String"

(***************************************************************************)
(* The token-level JSON grammar and the value of a token sequence, for     *)
(* C18.  i is the 1-based index of the next token; the result holds the    *)
(* value and the index after it.                                           *)
(*   value    ::= String | Number | Bool | Null | array | object           *)
(*   array    ::= [ ]  |  [ value (, value)* ]                             *)
(*   object   ::= { }  |  { String : value (, String : value)* }           *)
(***************************************************************************)
RefFail == [ok |-> FALSE, val |-> NullVal, next |-> 0]

RefOk(v, n) == [ok |-> TRUE, val |-> v, next |-> n]

\* the mapping of a sequence of <<key, value>> pairs, a later pair
\* replacing an earlier one of the same key
MapOf(pairs) ==
    [k \in {pairs[j][1] : j \in 1..Len(pairs)} |->
        LET last == CHOOSE j \in 1..Len(pairs) :
                       /\ pairs[j][1] = k
                       /\ \A h \in (j + 1)..Len(pairs) : pairs[h][1] # k
        IN  pairs[last][2]]

RECURSIVE RefValue(_, _)
RECURSIVE RefElements(_, _, _)
RECURSIVE RefMembers(_, _, _)

\* value (, value)* ]
RefElements(toks, i, acc) ==
    LET v == RefValue(toks, i)
    IN  IF ~v.ok THEN RefFail
        ELSE IF TokAt(toks, v.next) = Comma
        THEN RefElements(toks, v.next + 1, Append(acc, v.val))
        ELSE IF TokAt(toks, v.next) = SquareClose
        THEN RefOk(ArrayVal(Append(acc, v.val)), v.next + 1)
        ELSE RefFail

\* String : value (, String : value)* }
RefMembers(toks, i, pairs) ==
    IF TokAt(toks, i).t # "String" \/ TokAt(toks, i + 1) # Colon THEN RefFail
    ELSE LET v == RefValue(toks, i + 2)
             ps == Append(pairs, <<toks[i].s, v.val>>)
         IN  IF ~v.ok THEN RefFail
             ELSE IF TokAt(toks, v.next) = Comma THEN RefMembers(toks, v.next + 1, ps)
             ELSE IF TokAt(toks, v.next) = CurlyClose
             THEN RefOk(ObjectVal(MapOf(ps)), v.next + 1)
             ELSE RefFail

RefValue(toks, i) ==
    LET tok == TokAt(toks, i)
    IN  CASE tok.t = "String" -> RefOk(StringVal(tok.s), i + 1)
          [] tok.t = "Number" -> RefOk(NumberVal(tok.n), i + 1)
          [] tok.t = "Bool" -> RefOk(BoolVal(tok.b), i + 1)
          [] tok.t = "Null" -> RefOk(NullVal, i + 1)
          [] tok.t = "SquareOpen" ->
                IF TokAt(toks, i + 1) = SquareClose THEN RefOk(ArrayVal(<<>>), i + 2)
                ELSE RefElements(toks, i + 1, <<>>)
          [] tok.t = "CurlyOpen" ->
                IF TokAt(toks, i + 1) = CurlyClose THEN RefOk(ObjectVal(MapOf(<<>>)), i + 2)
                ELSE RefMembers(toks, i + 1, <<>>)
          [] OTHER -> RefFail

\* the whole of toks is one value of the grammar
Grammatical(toks) == RefValue(toks, 1).ok /\ RefValue(toks, 1).next = Len(toks) + 1

\* C18: on a token sequence that is one value of the token-level grammar
\* parse returns Ok with the value of the grammar and has taken every
\* token; on the empty sequence and on one that starts with CurlyClose,
\* SquareClose, Comma or Colon it returns the error "Unexpected token".
C18_ParseGrammar ==
    pc \in {"parsed", "done"} =>
        /\ Grammatical(tokens) =>
              /\ parseRes = [ok |-> TRUE, val |-> RefValue(tokens, 1).val, err |-> ""]
              /\ pos = Len(tokens)
        /\ (tokens = <<>> \/ TokAt(tokens, 1) \in {CurlyClose, SquareClose, Comma, Colon}) =>
              parseRes = [ok |-> FALSE, val |-> NullVal, err |-> "Unexpected token"]

\* an array of two values at least, an Object among them and the first
\* value not equal to the second, has been parsed
C18_Witness ==
    /\ pc = "done"
    /\ Grammatical(tokens)
    /\ parseRes.ok
    /\ parseRes.val.t = "Array"
    /\ Len(parseRes.val.a) >= 2
    /\ parseRes.val.a[1] # parseRes.val.a[2]
    /\ \E k \in 1..Len(parseRes.val.a) : parseRes.val.a[k].t = "Object"

\* what decreases with every step of the parser: the tokens left, then
\* the place in the iteration
ParserMeasure(p, consumed) ==
    3 * (Len(tokens) - consumed)
      + (CASE p = "ret" -> 2 [] p = "loop" -> 1 [] OTHER -> 0)

\* the step of the top frame reads the iterator through peek_token only
OnlyPeeks ==
    /\ pc \in {"loop", "ret"}
    /\ Top.fn = "array"
    /\ (pc = "ret") = (peek_token(tokens, pos) = SquareClose)

\* C19: in every step of the parser the count of consumed tokens does not
\* decrease and stays within the sequence, which is left as it is; a step
\* that only peeks consumes nothing; when a loop starts its next iteration
\* a token at least has been consumed since the last one began; at the end
\* of the tokens the parser returns an error, if need be after the peek of
\* parse_array; and every step that does not end the parse decreases a
\* measure that is bounded below; and the parse ends.
C19_ParserProgress ==
    /\ [][InParser(pc) =>
             /\ tokens' = tokens
             /\ pos' >= pos
             /\ pos' <= Len(tokens)
             /\ OnlyPeeks => pos' = pos
             /\ (pc = "ret" /\ pc' = "loop") => pos' > Top.at
             /\ (pos = Len(tokens) /\ ~(pc = "loop" /\ Top.fn = "array")) =>
                   (pc' = "parsed" /\ ~parseRes'.ok)
             /\ IF InParser(pc')
                THEN /\ ParserMeasure(pc', pos') < ParserMeasure(pc, pos)
                     /\ ParserMeasure(pc', pos') >= 0
                ELSE pc' = "parsed" /\ stack' = <<>>]_vars
    /\ (InParser(pc) ~> pc = "parsed")

\* the parse of  [ Number ,  has ended with an error after the last token,
\* in the iteration of parse_array that follows the comma
C19_Witness ==
    /\ pc = "parsed"
    /\ Len(tokens) = 3
    /\ tokens[1] = SquareOpen
    /\ tokens[2].t = "Number"
    /\ tokens[3] = Comma
    /\ pos = 3
    /\ parseRes.err = "Unexpected token"

====
